---- MODULE Spec2Model ----
(***************************************************************************)
(* Lifecycle of one reactive-tools module (SancusModule, TrustZoneModule): *)
(* the memoized build / deploy / key / attest futures, the coroutines that *)
(* resolve them, and the callers that run on the same asyncio event loop.  *)
(* One action is one atomic block of a coroutine: the code between two     *)
(* suspension points.                                                      *)
(***************************************************************************)
EXTENDS Integers, Sequences, FiniteSets, Bags, TLC

\* ------------------------------------------------------------------ bounds
MaxCalls == 2    \* API calls made during one run, concurrent or in sequence

\* ------------------------------------------------------------------- state
VARIABLES
    mod_dict,   \* the persisted dictionary the module was loaded from
    backend,    \* "sancus" (SancusModule) or "trustzone" (TrustZoneModule)
    att_man,    \* glob.get_att_man(): an attestation manager is configured
    deployed,   \* Module.deployed
    attested,   \* Module.attested
    self_id,    \* TrustZoneModule.id, a plain field
    fut,        \* __build_fut, __deploy_fut, __key_fut, __attest_fut
    task,       \* position of the coroutine wrapped by each future
    callers,    \* the API calls in progress: a bag of [op, pc, req]
    calls,      \* number of API calls made so far
    called,     \* the API methods called so far
    n,          \* how often each underlying computation was started
    seen,       \* the results observed at the await of each future
    failed,     \* the stages whose computation has raised
    reply,      \* the last output of the attestation-manager client
    dumped,     \* the dictionary returned by the last dump()
    symbols,    \* the symbol table of the module's ELF binary
    statics,    \* TrustZoneModule.inputs, .outputs and .entrypoints
    endpoint,   \* the outcome of the last endpoint resolution
    ldflags,    \* SancusModule.ldflags: what --sm-config-file designates
    connections, \* Module.connections
    cc,         \* the sancus-cc process of each source file
    ld,         \* the sancus-ld process
    config_file, \* the content of the file --sm-config-file designates
    merged,     \* what __prepare_config_file has written, oldest first
    node_key,   \* self.node.node_key
    ta_binary,  \* the bytes of the trusted application's binary
    key_size    \* Encryption.AES.get_key_size()

vars == <<mod_dict, backend, att_man, deployed, attested, self_id, fut, task,
          callers, calls, called, n, seen, failed, reply, dumped,
          symbols, statics, endpoint,
          ldflags, connections, cc, ld, config_file, merged,
          node_key, ta_binary, key_size>>

Slots == {"build_fut", "deploy_fut", "key_fut", "attest_fut"}

\* Optional values: None is <<>>, a present value v is <<v>>.
None == <<>>
Some(v) == <<v>>

\* ---------------------------------------------------------------- encodings
\* What sancus-crypto can print: a string of hex digits.
HexOutputs == {<<>>, <<0>>, <<0, 1>>, <<1, 0>>, <<0, 1, 0>>, <<0, 1, 1, 0>>}

\* binascii.unhexlify: two hex digits make one byte; an odd number of digits
\* raises binascii.Error.
RECURSIVE unhexlify_even(_)
unhexlify_even(h) ==
    IF h = <<>> THEN <<>>
    ELSE <<16 * h[1] + h[2]>> \o unhexlify_even(SubSeq(h, 3, Len(h)))

unhexlify_ok(h) == Len(h) % 2 = 0
unhexlify(h) == unhexlify_even(h)

\* binascii.hexlify, the encoding of a key in the persisted dictionary.
RECURSIVE hexlify(_)
hexlify(b) ==
    IF b = <<>> THEN <<>>
    ELSE <<b[1] \div 16, b[1] % 16>> \o hexlify(Tail(b))

\* A file path is the sequence of the runs that named it: the path found in
\* a persisted dictionary is <<0>>, the temporary file of run r is <<r>>.
LoadedPath == <<0>>

\* The key stored in a persisted dictionary, hex encoded.
LoadedKeyHex == <<0, 1>>
parse_key(k) == IF k = None THEN None ELSE Some(unhexlify(k[1]))

\* ------------------------------------------------------------------ futures
NoFut == [st |-> "none", run |-> 0, val |-> <<>>]

\* tools.init_future: no known value leaves the slot unset, a known value
\* seeds it as an already resolved future.
init_future(results) ==
    IF \A i \in 1..Len(results) : results[i] = None
    THEN NoFut
    ELSE [st |-> "done", run |-> 0,
          val |-> IF Len(results) = 1 THEN results[1][1] ELSE results]

\* The module's memoization state as one value: a block of code that runs
\* through several calls without suspending is a composition of functions.
M == [fut |-> fut, task |-> task, n |-> n, seen |-> seen, failed |-> failed]

SetM(m) ==
    /\ fut' = m.fut /\ task' = m.task /\ n' = m.n
    /\ seen' = m.seen /\ failed' = m.failed

\* asyncio.ensure_future(coro): a new pending future, its coroutine scheduled.
ensure_future(m, s, ctr) ==
    [m EXCEPT !.fut[s] = [st |-> "pending", run |-> m.n[ctr] + 1, val |-> <<>>],
              !.task[s] = "scheduled",
              !.n[ctr] = @ + 1]

Goto(m, s, pc) == [m EXCEPT !.task[s] = pc]
Count(m, ctr) == [m EXCEPT !.n[ctr] = @ + 1]

\* The coroutine of slot s returns v / raises at stage k.
Return(m, s, v) ==
    [m EXCEPT !.fut[s] = [st |-> "done", run |-> @.run, val |-> v],
              !.task[s] = "done"]
Raise(m, s, k) ==
    [m EXCEPT !.fut[s] = [st |-> "failed", run |-> @.run, val |-> <<>>],
              !.task[s] = "done",
              !.failed = @ \cup {k}]

\* await fut on a settled future returns (or raises) without suspending.
settled(m, s) == m.fut[s].st \in {"done", "failed"}
done(m, s) == m.fut[s].st = "done"
Settled(s) == settled(M, s)

\* An awaiter of slot s receives its outcome, at stage k.
observe(m, k, s) ==
    [m EXCEPT !.seen[k] = @ \cup {[ok |-> done(m, s), run |-> m.fut[s].run]}]

\* A computation run by the caller itself, its request numbered run, ends.
finish(m, k, ok, run) ==
    [m EXCEPT !.seen[k] = @ \cup {[ok |-> ok, run |-> run]},
              !.failed = IF ok THEN @ ELSE @ \cup {k}]

\* ------------------------------------------------------ memoized operations
\* SancusModule.build / TrustZoneModule.build up to the await.
build_without_memo(m) == ensure_future(m, "build_fut", "build")
build(m) ==
    IF m.fut["build_fut"].st = "none"
    THEN ensure_future(m, "build_fut", "build")
    ELSE m

\* The binary property: return await self.build().
binary(m) == build(m)

\* SancusModule.deploy up to the await.
deploy(m) ==
    IF m.fut["deploy_fut"].st = "none"
    THEN ensure_future(m, "deploy_fut", "node_deploy")
    ELSE m

\* The id and symtab properties: both await self.deploy().
id(m) == deploy(m)
symtab(m) == deploy(m)

\* The key property up to the await.
key_without_memo(m) == ensure_future(m, "key_fut", "calculate_key")
key(m) ==
    IF m.fut["key_fut"].st = "none"
    THEN ensure_future(m, "key_fut", "calculate_key")
    ELSE m

\* attest() in local mode up to the await.
attest_local(m) ==
    IF m.fut["attest_fut"].st = "none"
    THEN ensure_future(m, "attest_fut", "node_attest")
    ELSE m

\* ------------------------------------------------------------ construction
Dicts ==
    [deployed : BOOLEAN, attested : BOOLEAN,
     binary : {None, Some(LoadedPath)}, id : {None, Some(0)},
     symtab : {None, Some(LoadedPath)},
     key : {None, Some(LoadedKeyHex)}]

\* SancusModule.load and __init__.
SancusLoad_key_unparsed(d) ==
    [deployed |-> d.deployed, attested |-> d.attested, self_id |-> None,
     fut |-> [s \in Slots |->
        CASE s = "build_fut" -> init_future(<<d.binary>>)
          [] s = "deploy_fut" -> init_future(<<d.id, d.symtab>>)
          [] s = "key_fut" -> init_future(<<d.key>>)
          [] s = "attest_fut" ->
                init_future(<<IF d.attested THEN Some(<<>>) ELSE None>>)]]

SancusLoad(d) ==
    [deployed |-> d.deployed, attested |-> d.attested, self_id |-> None,
     fut |-> [s \in Slots |->
        CASE s = "build_fut" -> init_future(<<d.binary>>)
          [] s = "deploy_fut" -> init_future(<<d.id, d.symtab>>)
          [] s = "key_fut" -> init_future(<<parse_key(d.key)>>)
          [] s = "attest_fut" ->
                init_future(<<IF d.attested THEN Some(<<>>) ELSE None>>)]]

\* TrustZoneModule.load and __init__.
TrustZoneLoad(d) ==
    [deployed |-> d.deployed, attested |-> d.attested, self_id |-> d.id,
     fut |-> [s \in Slots |->
        CASE s = "build_fut" -> init_future(<<d.binary>>)
          [] s = "deploy_fut" -> NoFut
          [] s = "key_fut" -> init_future(<<parse_key(d.key)>>)
          [] s = "attest_fut" ->
                init_future(<<IF d.attested THEN Some(<<>>) ELSE None>>)]]

Counters == {"build", "node_deploy", "calculate_key", "link", "keygen",
             "node_attest", "att_man"}
Stages == {"build", "deploy", "key", "attest"}

NoReply == [out |-> None, raised |-> FALSE]

NoDump == [deployed |-> FALSE, attested |-> FALSE, binary |-> None, id |-> None,
           symtab |-> None, key |-> None, made |-> FALSE]

\* ---------------------------------------------------- endpoint arguments
\* A string is the sequence of its characters: 0..9 are the digits, larger
\* numbers are letters.
Digits == 0..9

\* str.isnumeric(): not empty, and every character a digit.
isnumeric(chars) == chars # <<>> /\ \A i \in 1..Len(chars) : chars[i] \in Digits

\* int(entry) of a numeric string.
RECURSIVE int(_)
int(chars) ==
    IF chars = <<>> THEN 0
    ELSE 10 * int(SubSeq(chars, 1, Len(chars) - 1)) + chars[Len(chars)]

\* What a caller can pass as input, output or entry: an int or a str.
IntArg(i) == [type |-> "int", num |-> i, chars |-> <<>>]
StrArg(chars) == [type |-> "str", num |-> 0, chars |-> chars]
Args == <<IntArg(7), StrArg(<<7>>), StrArg(<<0, 7>>), StrArg(<<11>>), StrArg(<<12>>), StrArg(<<>>)>>

\* self.name
self_name == "foo"

\* '__sm_{}_io_{}_idx'.format(self.name, io_name) and
\* '__sm_{}_entry_{}_idx'.format(self.name, entry_name)
sym_name(mod, kind, ep) == [mod |-> mod, kind |-> kind, ep |-> ep]

\* A symbol of the ELF symbol table: its name, st_shndx and st_value.
Symbol(nm, shndx, value) == [name |-> nm, st_shndx |-> shndx, st_value |-> value]

\* The symbol tables the linker can have produced.
SymTabs ==
    LET b == <<11>>
        def == Symbol(sym_name(self_name, "io", b), "SHN_ABS", 52)
        zero == Symbol(sym_name(self_name, "io", b), "SHN_ABS", 0)
        late == Symbol(sym_name(self_name, "io", b), "SHN_ABS", 8)
        undef == Symbol(sym_name(self_name, "io", b), "SHN_UNDEF", 0)
        entry == Symbol(sym_name(self_name, "entry", b), "SHN_ABS", 9)
        other == Symbol(sym_name("bar", "io", b), "SHN_ABS", 5)
    IN  {<<>>, <<undef>>, <<undef, def>>, <<def, undef>>, <<zero>>, <<entry>>,
         <<other>>, <<def, late>>, <<undef, entry, other, late>>}

\* The static name to ID maps of a TrustZone module.
IdMaps == {<<>>, <<[name |-> <<11>>, id |-> 3]>>,
           <<[name |-> <<11>>, id |-> 3], [name |-> <<7>>, id |-> 4]>>}

NoStatics == [inputs |-> <<>>, outputs |-> <<>>, entrypoints |-> <<>>]

NoEndpoint == [op |-> "", arg |-> 0, out |-> None, err |-> None]

\* -------------------------------------------------------- the config file
\* self.files
Files == {"a.c", "b.c"}

\* What the file --sm-config-file designates can hold. kind is "missing" (no
\* such file), "invalid" (yaml.load raises), "other" (YAML that is not a
\* mapping: an empty file, a list, a scalar) or "dict"; of a mapping, the
\* value of the top-level keys "num_connections", self.name and another
\* module's name, where a module's value is its list of
\* {"num_connections": N} records, given by the N.
Content(kind, nc, own, other) ==
    [kind |-> kind, num_connections |-> nc, own |-> own, other |-> other]

NoContent == Content("missing", None, None, None)

Contents ==
    {NoContent, Content("invalid", None, None, None), Content("other", None, None, None)}
    \cup {Content("dict", nc, own, other) :
            nc \in {None, Some(1), Some(3)},
            own \in {None, Some(<<>>), Some(<<1>>), Some(<<2>>)},
            other \in {None, Some(<<4>>)}}

\* No key material: the hashing of the TrustZone binary is left open.
NoKeyMaterial ==
    /\ node_key = <<>>
    /\ ta_binary = <<>>
    /\ key_size = 0

\* No build has started: no process, nothing written.
NoBuild ==
    /\ cc = [f \in Files |-> "none"]
    /\ ld = "none"
    /\ merged = <<>>

\* ---------------------------------------------------------------- initial
\* The module as load() constructs it from mod_dict.
Constructed ==
    LET mod == IF backend = "sancus" THEN SancusLoad(mod_dict)
               ELSE TrustZoneLoad(mod_dict)
    IN  /\ deployed = mod.deployed
        /\ attested = mod.attested
        /\ self_id = mod.self_id
        /\ fut = mod.fut

\* Nothing has run yet.
Fresh ==
    /\ task = [s \in Slots |-> "none"]
    /\ callers = EmptyBag
    /\ calls = 0
    /\ called = {}
    /\ n = [c \in Counters |-> 0]
    /\ seen = [s \in Stages |-> {}]
    /\ failed = {}
    /\ reply = NoReply
    /\ dumped = NoDump
    /\ endpoint = NoEndpoint

Init ==
    /\ backend \in {"sancus", "trustzone"}
    /\ att_man \in (IF backend = "sancus" THEN BOOLEAN ELSE {FALSE})
    /\ mod_dict \in {d \in Dicts :
            IF backend = "sancus" THEN (d.id = None) = (d.symtab = None)
            ELSE d.symtab = None}
    /\ Constructed
    /\ Fresh
    /\ symbols = <<>>
    /\ statics = NoStatics
    /\ ldflags = "none" /\ connections = 0
    /\ config_file = NoContent
    /\ NoBuild
    /\ NoKeyMaterial

\* Where a caller stands after a block of code: r.pc is "idle" when its call
\* has returned or raised, r.m is the module after the block.
Stop(m) == [m |-> m, pc |-> "idle", req |-> 0]
Wait(m, pc, req) == [m |-> m, pc |-> pc, req |-> req]

Suspended(op, r) ==
    IF r.pc = "idle" THEN EmptyBag
    ELSE SetToBag({[op |-> op, pc |-> r.pc, req |-> r.req]})

\* Some coroutine calls method op and runs to r.
Call(op, r) ==
    /\ calls < MaxCalls
    /\ calls' = calls + 1
    /\ called' = called \cup {op}
    /\ SetM(r.m)
    /\ callers' = callers (+) Suspended(op, r)

\* The call c, suspended in op at pc, is resumed and runs to r.
At(c, op, pc) == c.op = op /\ c.pc = pc
Resume(c, r) ==
    /\ SetM(r.m)
    /\ callers' = (callers (-) SetToBag({c})) (+) Suspended(c.op, r)
    /\ UNCHANGED <<calls, called>>

\* return await fut: the outcome is received now if the future is settled,
\* at pc otherwise.
await(m, k, s, pc) == IF settled(m, s) THEN Stop(observe(m, k, s)) ELSE Wait(m, pc, 0)

Config == <<mod_dict, backend, att_man, self_id, symbols, statics,
            ldflags, connections, node_key, ta_binary, key_size>>
Toolchain == <<cc, ld, config_file, merged>>
Env == <<Config, Toolchain>>
Out == <<reply, dumped, endpoint>>
Caller == <<callers, calls, called>>

\* ------------------------------------------------------------------- build
\* build(): the caller creates the future if there is none, and awaits it.
build_call ==
    /\ Call("build", await(build(M), "build", "build_fut", "await_build_fut"))
    /\ UNCHANGED <<Env, deployed, attested, Out>>

build_return(c) ==
    /\ At(c, "build", "await_build_fut")
    /\ Settled("build_fut")
    /\ Resume(c, Stop(observe(M, "build", "build_fut")))
    /\ UNCHANGED <<Env, deployed, attested, Out>>

\* SancusModule.__build: the compilers are launched and gathered.
sancus_build_start ==
    /\ backend = "sancus" /\ task["build_fut"] = "scheduled"
    /\ SetM(Goto(M, "build_fut", "cc"))
    /\ UNCHANGED <<Env, deployed, attested, Caller, Out>>

\* The gather returns: the config file is prepared and the linker launched;
\* a failed compiler raises out of __build.
sancus_build_compiled ==
    /\ backend = "sancus" /\ task["build_fut"] = "cc"
    /\ \E ok \in BOOLEAN :
        SetM(IF ok THEN Goto(M, "build_fut", "ld") ELSE Raise(M, "build_fut", "build"))
    /\ UNCHANGED <<Env, deployed, attested, Caller, Out>>

\* sancus-ld returns: __build returns the path of the binary, or raises.
sancus_build_linked ==
    /\ backend = "sancus" /\ task["build_fut"] = "ld"
    /\ \E ok \in BOOLEAN :
        SetM(IF ok THEN Return(M, "build_fut", <<fut["build_fut"].run>>)
             ELSE Raise(M, "build_fut", "build"))
    /\ UNCHANGED <<Env, deployed, attested, Caller, Out>>

\* TrustZoneModule.__build: the make command is launched.
trustzone_build_start ==
    /\ backend = "trustzone" /\ task["build_fut"] = "scheduled"
    /\ SetM(Goto(M, "build_fut", "make"))
    /\ UNCHANGED <<Env, deployed, attested, Caller, Out>>

\* make returns: __build returns BUILD_DIR/name/uuid.ta, or raises.
TaPath == <<1>>

trustzone_build_made ==
    /\ backend = "trustzone" /\ task["build_fut"] = "make"
    /\ \E ok \in BOOLEAN :
        SetM(IF ok THEN Return(M, "build_fut", TaPath) ELSE Raise(M, "build_fut", "build"))
    /\ UNCHANGED <<Env, deployed, attested, Caller, Out>>

\* ------------------------------------------------- Sancus build, in detail
\* The try block of __prepare_config_file: the designated file when there is
\* a flag and the file parses; otherwise a new temporary file and the config
\* {self.name: []}.
config_loaded(flags, content) ==
    IF flags = "file" /\ content.kind \in {"other", "dict"}
    THEN [file |-> "config", config |-> content]
    ELSE [file |-> "tmp", config |-> Content("dict", None, Some(<<>>), None)]

\* config[self.name].append({"num_connections": self.connections})
replace_connections(config, conn) == [config EXCEPT !.own = Some(<<conn>>)]
append_connections(config, conn) == [config EXCEPT !.own = Some(@[1] \o <<conn>>)]

Prepared(raised, file, written) == [raised |-> raised, file |-> file, written |-> written]

\* __prepare_config_file: what it writes to which file, or that it raises
\* before writing (a config that is no mapping, or has no key self.name).
prepare_config_file(flags, content, conn) ==
    LET l == config_loaded(flags, content)
        config == l.config
    IN  IF config.kind # "dict" THEN Prepared(TRUE, l.file, None)
        ELSE IF config.num_connections = None \/ config.num_connections[1] < conn
        THEN IF config.own = None THEN Prepared(TRUE, l.file, None)
             ELSE Prepared(FALSE, l.file, Some(append_connections(config, conn)))
        ELSE Prepared(FALSE, l.file, Some(config))

\* await asyncio.gather(*build_futs): raises with the first compiler that
\* fails, returns when all have succeeded.
gather_ignoring_failures(procs) ==
    IF \A f \in Files : procs[f] \in {"ok", "failed"} THEN "returned" ELSE "pending"
gather(procs) ==
    IF \E f \in Files : procs[f] = "failed" THEN "raised"
    ELSE IF \A f \in Files : procs[f] = "ok" THEN "returned"
    ELSE "pending"

\* __build up to the gather: one sancus-cc per source file, all launched.
build_objects ==
    /\ backend = "sancus" /\ task["build_fut"] = "scheduled"
    /\ SetM(Goto(M, "build_fut", "gather"))
    /\ cc' = [f \in Files |-> "running"]
    /\ UNCHANGED <<Config, ld, config_file, merged, deployed, attested, Caller, Out>>

\* A compiler exits.
cc_exit ==
    /\ \E f \in Files, ok \in BOOLEAN :
        /\ cc[f] = "running"
        /\ cc' = [cc EXCEPT ![f] = IF ok THEN "ok" ELSE "failed"]
    /\ UNCHANGED <<Config, ld, config_file, merged, deployed, attested, Caller, Out,
                   fut, task, n, seen, failed>>

\* The gather ends: it raises out of __build, or the config file is
\* prepared and sancus-ld launched.
gather_done ==
    /\ backend = "sancus" /\ task["build_fut"] = "gather"
    /\ gather(cc) # "pending"
    /\ LET p == prepare_config_file(ldflags, config_file, connections)
       IN  IF gather(cc) = "raised" \/ p.raised
           THEN /\ SetM(Raise(M, "build_fut", "build"))
                /\ UNCHANGED <<ld, config_file, merged>>
           ELSE /\ SetM(Goto(M, "build_fut", "ld"))
                /\ ld' = "running"
                /\ merged' = Append(merged, [file |-> p.file, content |-> p.written[1]])
                /\ config_file' = IF p.file = "config" THEN p.written[1]
                                  ELSE config_file
    /\ UNCHANGED <<Config, cc, deployed, attested, Caller, Out>>

\* sancus-ld exits: __build returns the path of the binary, or raises.
ld_exit ==
    /\ backend = "sancus" /\ task["build_fut"] = "ld" /\ ld = "running"
    /\ \E ok \in BOOLEAN :
        /\ ld' = IF ok THEN "ok" ELSE "failed"
        /\ SetM(IF ok THEN Return(M, "build_fut", <<fut["build_fut"].run>>)
                ELSE Raise(M, "build_fut", "build"))
    /\ UNCHANGED <<Config, cc, config_file, merged, deployed, attested, Caller, Out>>

\* A later run: the run has ended and the module, still not deployed, is
\* loaded again from its dump; the files stay as the earlier run left them.
reload ==
    /\ calls < MaxCalls
    /\ Settled("build_fut") /\ callers = EmptyBag
    /\ \A f \in Files : cc[f] # "running"
    /\ fut' = SancusLoad(mod_dict).fut
    /\ task' = [s \in Slots |-> "none"]
    /\ n' = [c \in Counters |-> 0]
    /\ seen' = [s \in Stages |-> {}]
    /\ failed' = {}
    /\ cc' = [f \in Files |-> "none"]
    /\ ld' = "none"
    /\ UNCHANGED <<Config, config_file, merged, deployed, attested, Caller, Out>>

\* ------------------------------------------------------------------ deploy
\* SancusModule.deploy: memoized in __deploy_fut.
sancus_deploy_call ==
    /\ backend = "sancus"
    /\ Call("deploy", await(deploy(M), "deploy", "deploy_fut", "await_deploy_fut"))
    /\ UNCHANGED <<Env, deployed, attested, Out>>

sancus_deploy_return(c) ==
    /\ At(c, "deploy", "await_deploy_fut")
    /\ Settled("deploy_fut")
    /\ Resume(c, Stop(observe(M, "deploy", "deploy_fut")))
    /\ UNCHANGED <<Env, deployed, attested, Out>>

\* node.deploy(module), wrapped in __deploy_fut: it reads the module's binary,
\* sends it to the node, marks the module deployed and returns (id, symtab).
node_deploy_binary(m) ==
    IF done(m, "build_fut")
    THEN Goto(observe(m, "build", "build_fut"), "deploy_fut", "send")
    ELSE Raise(observe(m, "build", "build_fut"), "deploy_fut", "deploy")

node_deploy(m) ==
    LET m1 == binary(m)
    IN  IF settled(m1, "build_fut") THEN node_deploy_binary(m1)
        ELSE Goto(m1, "deploy_fut", "await_binary")

node_deploy_start ==
    /\ backend = "sancus" /\ task["deploy_fut"] = "scheduled"
    /\ SetM(node_deploy(M))
    /\ UNCHANGED <<Env, deployed, attested, Caller, Out>>

node_deploy_resume ==
    /\ backend = "sancus" /\ task["deploy_fut"] = "await_binary"
    /\ Settled("build_fut")
    /\ SetM(node_deploy_binary(M))
    /\ UNCHANGED <<Env, deployed, attested, Caller, Out>>

node_deploy_done ==
    /\ backend = "sancus" /\ task["deploy_fut"] = "send"
    /\ \E ok \in BOOLEAN :
        /\ SetM(IF ok THEN Return(M, "deploy_fut", <<Some(fut["deploy_fut"].run),
                                                    Some(<<fut["deploy_fut"].run>>)>>)
                ELSE Raise(M, "deploy_fut", "deploy"))
        /\ deployed' = (deployed \/ ok)
    /\ UNCHANGED <<Env, attested, Caller, Out>>

\* TrustZoneModule.deploy: await self.node.deploy(self), in the caller.
trustzone_deploy_binary(m, req) ==
    IF done(m, "build_fut")
    THEN Wait(observe(m, "build", "build_fut"), "send", req)
    ELSE Stop(finish(observe(m, "build", "build_fut"), "deploy", FALSE, req))

trustzone_deploy(m) ==
    LET m1 == Count(binary(m), "node_deploy")
        req == m1.n["node_deploy"]
    IN  IF settled(m1, "build_fut") THEN trustzone_deploy_binary(m1, req)
        ELSE Wait(m1, "await_binary", req)

trustzone_deploy_call ==
    /\ backend = "trustzone"
    /\ Call("deploy", trustzone_deploy(M))
    /\ UNCHANGED <<Env, deployed, attested, Out>>

trustzone_deploy_resume(c) ==
    /\ At(c, "deploy", "await_binary")
    /\ Settled("build_fut")
    /\ Resume(c, trustzone_deploy_binary(M, c.req))
    /\ UNCHANGED <<Env, deployed, attested, Out>>

trustzone_deploy_done(c) ==
    /\ At(c, "deploy", "send")
    /\ \E ok \in BOOLEAN :
        /\ Resume(c, Stop(finish(M, "deploy", ok, c.req)))
        /\ deployed' = (deployed \/ ok)
    /\ UNCHANGED <<Env, attested, Out>>

\* --------------------------------------------------------------------- key
\* get_key(): return await self.key.
get_key_call ==
    /\ Call("get_key", await(key(M), "key", "key_fut", "await_key_fut"))
    /\ UNCHANGED <<Env, deployed, attested, Out>>

get_key_return(c) ==
    /\ At(c, "get_key", "await_key_fut")
    /\ Settled("key_fut")
    /\ Resume(c, Stop(observe(M, "key", "key_fut")))
    /\ UNCHANGED <<Env, deployed, attested, Out>>

\* __link, once self.symtab and self.binary are there: msp430-ld is launched.
link_binary(m) ==
    IF done(m, "build_fut")
    THEN Goto(Count(observe(m, "build", "build_fut"), "link"), "key_fut", "msp430_ld")
    ELSE Raise(observe(m, "build", "build_fut"), "key_fut", "key")

\* __link, once self.symtab is there: self.binary is awaited.
link_symtab(m) ==
    IF done(m, "deploy_fut")
    THEN LET m1 == binary(observe(m, "deploy", "deploy_fut"))
         IN  IF settled(m1, "build_fut") THEN link_binary(m1)
             ELSE Goto(m1, "key_fut", "await_binary")
    ELSE Raise(observe(m, "deploy", "deploy_fut"), "key_fut", "key")

\* SancusModule._calculate_key enters __link, which awaits self.symtab first.
link(m) ==
    LET m1 == symtab(m)
    IN  IF settled(m1, "deploy_fut") THEN link_symtab(m1)
        ELSE Goto(m1, "key_fut", "await_symtab")

calculate_key_start ==
    /\ backend = "sancus" /\ task["key_fut"] = "scheduled"
    /\ SetM(link(M))
    /\ UNCHANGED <<Env, deployed, attested, Caller, Out>>

link_resume_symtab ==
    /\ backend = "sancus" /\ task["key_fut"] = "await_symtab"
    /\ Settled("deploy_fut")
    /\ SetM(link_symtab(M))
    /\ UNCHANGED <<Env, deployed, attested, Caller, Out>>

link_resume_binary ==
    /\ backend = "sancus" /\ task["key_fut"] = "await_binary"
    /\ Settled("build_fut")
    /\ SetM(link_binary(M))
    /\ UNCHANGED <<Env, deployed, attested, Caller, Out>>

\* msp430-ld returns: __link returns and sancus-crypto is launched.
link_done ==
    /\ backend = "sancus" /\ task["key_fut"] = "msp430_ld"
    /\ \E ok \in BOOLEAN :
        SetM(IF ok THEN Goto(Count(M, "keygen"), "key_fut", "sancus_crypto")
             ELSE Raise(M, "key_fut", "key"))
    /\ UNCHANGED <<Env, deployed, attested, Caller, Out>>

\* sancus-crypto returns its output, which is decoded from hex.
calculate_key_done ==
    /\ backend = "sancus" /\ task["key_fut"] = "sancus_crypto"
    /\ \E ok \in BOOLEAN, h \in HexOutputs :
        SetM(IF ok /\ unhexlify_ok(h) THEN Return(M, "key_fut", unhexlify(h))
             ELSE Raise(M, "key_fut", "key"))
    /\ UNCHANGED <<Env, deployed, attested, Caller, Out>>

\* TrustZoneModule.__calculate_key, once self.binary is there: the binary is
\* read and hashed with the node key; the digest depends on the content of
\* the binary, which the build decides.
trustzone_calculate_key_binary(m, ok, h) ==
    IF done(m, "build_fut") /\ ok
    THEN Return(observe(m, "build", "build_fut"), "key_fut", unhexlify(h))
    ELSE Raise(observe(m, "build", "build_fut"), "key_fut", "key")

trustzone_calculate_key(m, ok, h) ==
    LET m1 == binary(m)
    IN  IF settled(m1, "build_fut") THEN trustzone_calculate_key_binary(m1, ok, h)
        ELSE Goto(m1, "key_fut", "await_binary")

Digests == {h \in HexOutputs : unhexlify_ok(h)}

trustzone_calculate_key_start ==
    /\ backend = "trustzone" /\ task["key_fut"] = "scheduled"
    /\ \E ok \in BOOLEAN, h \in Digests : SetM(trustzone_calculate_key(M, ok, h))
    /\ UNCHANGED <<Env, deployed, attested, Caller, Out>>

trustzone_calculate_key_resume ==
    /\ backend = "trustzone" /\ task["key_fut"] = "await_binary"
    /\ Settled("build_fut")
    /\ \E ok \in BOOLEAN, h \in Digests : SetM(trustzone_calculate_key_binary(M, ok, h))
    /\ UNCHANGED <<Env, deployed, attested, Caller, Out>>

\* ------------------------------------------ TrustZone key, in detail
HeaderSize == 20    \* struct shdr, the first bytes of the binary
PrefixSize == 52    \* f.read(52): the header and the hash
DigestSize == 32    \* the length of a SHA-256 digest

\* hashlib.sha256(msg).digest(), as far as the derivation depends on it: 32
\* bytes that are a function of the whole message, the order of its bytes
\* included. The mixing stands in for the compression function.
RECURSIVE absorb(_, _)
absorb(h, msg) ==
    IF msg = <<>> THEN h
    ELSE absorb((31 * h + msg[1] + 1) % 251, Tail(msg))

sha256(msg) == [i \in 1..DigestSize |-> (absorb(7, msg) + 17 * i) % 256]

\* f.read(size) and the slices of bytes.
read(content, size) ==
    SubSeq(content, 1, IF Len(content) < size THEN Len(content) ELSE size)
slice_from(b, start) == SubSeq(b, start + 1, Len(b))
slice_to(b, stop) == SubSeq(b, 1, IF Len(b) < stop THEN Len(b) ELSE stop)

\* node_key + module_hash
key_material_swapped(k, module_hash) == module_hash \o k
key_material(k, module_hash) == k \o module_hash

\* __calculate_key, once self.binary is there.
calculate_key_from_binary(m) ==
    LET m1 == observe(m, "build", "build_fut")
        module_hash == slice_from(read(ta_binary, PrefixSize), HeaderSize)
    IN  IF key_size > DigestSize THEN Raise(m1, "key_fut", "key")
        ELSE Return(m1, "key_fut",
                    slice_to(sha256(key_material(node_key, module_hash)), key_size))

\* TrustZoneModule.__calculate_key of a module whose binary is built.
derive_key ==
    /\ backend = "trustzone" /\ task["key_fut"] = "scheduled"
    /\ done(binary(M), "build_fut")
    /\ SetM(calculate_key_from_binary(binary(M)))
    /\ UNCHANGED <<Env, deployed, attested, Caller, Out>>

\* The node keys, binaries and key sizes the derivation is run on.
NodeKeys == {<<>>, <<1, 2>>, <<2, 1>>}

Binaries ==
    {[i \in 1..HeaderSize |-> h] \o [i \in 1..DigestSize |-> (x * i) % 256] \o t :
        h \in {0, 1}, x \in {1, 3}, t \in {<<>>, <<9, 9>>}}
    \cup {[i \in 1..30 |-> i]}

KeySizes == {0, 16, 24, 32, 33, 64}

\* ------------------------------------------------------------------ attest
\* attest() without an attestation manager: memoized in __attest_fut.
attest_call ==
    /\ ~(backend = "sancus" /\ att_man)
    /\ Call("attest", await(attest_local(M), "attest", "attest_fut", "await_attest_fut"))
    /\ UNCHANGED <<Env, deployed, attested, Out>>

attest_return(c) ==
    /\ At(c, "attest", "await_attest_fut")
    /\ Settled("attest_fut")
    /\ Resume(c, Stop(observe(M, "attest", "attest_fut")))
    /\ UNCHANGED <<Env, deployed, attested, Out>>

\* node.attest(module), wrapped in __attest_fut: the exchange with the node.
node_attest_start ==
    /\ task["attest_fut"] = "scheduled"
    /\ SetM(Goto(M, "attest_fut", "exchange"))
    /\ UNCHANGED <<Env, deployed, attested, Caller, Out>>

node_attest_done ==
    /\ task["attest_fut"] = "exchange"
    /\ \E ok \in BOOLEAN :
        /\ SetM(IF ok THEN Return(M, "attest_fut", <<>>)
                ELSE Raise(M, "attest_fut", "attest"))
        /\ attested' = (attested \/ ok)
    /\ UNCHANGED <<Env, deployed, Caller, Out>>

\* What the attestation-manager client can print: an array of integers.
Responses == {<<>>, <<1>>, <<16>>, <<256>>, <<1, 16>>, <<1, 17>>, <<1, 16, 0>>}

\* bytes(key_arr): every element must be a byte.
bytes_ok(arr) == \A i \in 1..Len(arr) : arr[i] \in 0..255
bytes(arr) == [i \in 1..Len(arr) |-> arr[i] % 256]

\* The comparison of __attest_manager: await self.key != key.
keys_differ_in_length(local, received) == Len(local) # Len(received)
keys_differ(local, received) == local # received

\* __attest_manager, once self.key is there: the request is written and the
\* client launched.
attest_manager_key(m) ==
    IF done(m, "key_fut")
    THEN Wait(Count(observe(m, "key", "key_fut"), "att_man"), "attman_cli",
              m.n["att_man"] + 1)
    ELSE Stop(finish(observe(m, "key", "key_fut"), "attest", FALSE, 0))

\* __attest_manager, once self.id is there: self.key is awaited.
attest_manager_id(m) ==
    IF done(m, "deploy_fut")
    THEN LET m1 == key(observe(m, "deploy", "deploy_fut"))
         IN  IF settled(m1, "key_fut") THEN attest_manager_key(m1)
             ELSE Wait(m1, "await_key", 0)
    ELSE Stop(finish(observe(m, "deploy", "deploy_fut"), "attest", FALSE, 0))

\* attest() with an attestation manager: __attest_manager, in the caller.
attest_manager(m) ==
    LET m1 == id(m)
    IN  IF settled(m1, "deploy_fut") THEN attest_manager_id(m1)
        ELSE Wait(m1, "await_id", 0)

attest_manager_call ==
    /\ backend = "sancus" /\ att_man
    /\ Call("attest", attest_manager(M))
    /\ UNCHANGED <<Env, deployed, attested, Out>>

attest_manager_resume_id(c) ==
    /\ At(c, "attest", "await_id")
    /\ Settled("deploy_fut")
    /\ Resume(c, attest_manager_id(M))
    /\ UNCHANGED <<Env, deployed, attested, Out>>

attest_manager_resume_key(c) ==
    /\ At(c, "attest", "await_key")
    /\ Settled("key_fut")
    /\ Resume(c, attest_manager_key(M))
    /\ UNCHANGED <<Env, deployed, attested, Out>>

\* The client returns: its output is decoded and compared with self.key;
\* attested is set when they are equal, Error is raised when they differ.
attest_manager_done(c) ==
    /\ At(c, "attest", "attman_cli")
    /\ \E ok \in BOOLEAN, out \in Responses :
        LET good == /\ ok
                    /\ bytes_ok(out)
                    /\ ~keys_differ(fut["key_fut"].val, bytes(out))
        IN  /\ Resume(c, Stop(finish(M, "attest", good, c.req)))
            /\ reply' = [out |-> IF ok THEN Some(out) ELSE None, raised |-> ~good]
            /\ attested' = (attested \/ good)
    /\ UNCHANGED <<Env, deployed, dumped, endpoint>>

\* ------------------------------------------------------------- identifiers
\* SancusModule.get_id: return await self.id.
get_id_call ==
    /\ backend = "sancus"
    /\ Call("get_id", await(id(M), "deploy", "deploy_fut", "await_deploy_fut"))
    /\ UNCHANGED <<Env, deployed, attested, Out>>

get_id_return(c) ==
    /\ At(c, "get_id", "await_deploy_fut")
    /\ Settled("deploy_fut")
    /\ Resume(c, Stop(observe(M, "deploy", "deploy_fut")))
    /\ UNCHANGED <<Env, deployed, attested, Out>>

\* TrustZoneModule.get_id: return self.id.
trustzone_get_id ==
    /\ backend = "trustzone"
    /\ Call("get_id", Stop(M))
    /\ UNCHANGED <<Env, deployed, attested, Out>>

EndpointOps == {"get_io_id", "get_entry_id"}

\* get_input_id / get_output_id / get_entry_id with a numeric argument.
get_endpoint_numeric ==
    /\ \E op \in EndpointOps : Call(op, Stop(M))
    /\ UNCHANGED <<Env, deployed, attested, Out>>

\* Sancus, symbolic argument: _get_io_id / _get_entry_id enter __get_symbol,
\* which awaits self.binary; then the symbol table is searched and the value
\* returned, or Error raised.
get_symbol_from_symtab(m) == await(symtab(m), "deploy", "deploy_fut", "await_binary")
get_symbol(m) == await(binary(m), "build", "build_fut", "await_binary")

get_symbol_call ==
    /\ backend = "sancus"
    /\ \E op \in EndpointOps : Call(op, get_symbol(M))
    /\ UNCHANGED <<Env, deployed, attested, Out>>

get_symbol_return(c) ==
    /\ c.op \in EndpointOps /\ c.pc = "await_binary"
    /\ Settled("build_fut")
    /\ Resume(c, Stop(observe(M, "build", "build_fut")))
    /\ UNCHANGED <<Env, deployed, attested, Out>>

\* TrustZone, symbolic argument: a lookup in the static maps.
trustzone_get_endpoint ==
    /\ backend = "trustzone"
    /\ \E op \in EndpointOps : Call(op, Stop(M))
    /\ UNCHANGED <<Env, deployed, attested, Out>>

\* ---------------------------------------------------- endpoint resolution
IoOps == {"get_input_id", "get_output_id"}

\* What a call returned (out) or raised (err): the kind of the exception, and
\* the module and the endpoint its message names.
Answer(op, a, out, err) == [op |-> op, arg |-> a, out |-> out, err |-> err]
Error(kind, mod, nm) == Some([kind |-> kind, module |-> mod, name |-> nm])

Resolved(m, pc, a, e) == [m |-> m, pc |-> pc, req |-> a, e |-> e]

\* __get_symbol, the search: the st_value of the first symbol of that name
\* whose section is not SHN_UNDEF; None when the loops end without one.
RECURSIVE get_symbol_in_any_section(_, _)
get_symbol_in_any_section(table, nm) ==
    IF table = <<>> THEN None
    ELSE IF Head(table).name = nm THEN Some(Head(table).st_value)
    ELSE get_symbol_in_any_section(Tail(table), nm)

RECURSIVE get_symbol_value(_, _)
get_symbol_value(table, nm) ==
    IF table = <<>> THEN None
    ELSE IF Head(table).name = nm /\ Head(table).st_shndx # "SHN_UNDEF"
    THEN Some(Head(table).st_value)
    ELSE get_symbol_value(Tail(table), nm)

\* _get_io_id / _get_entry_id, once self.binary is there: a failed build
\* raises out of the await; otherwise the symbol is searched, and Error
\* 'Module {} has no endpoint named {}' raised when there is none.
lookup_symbol(m, op, a) ==
    LET m1 == observe(m, "build", "build_fut")
        kind == IF op = "get_entry_id" THEN "entry" ELSE "io"
        symbol == get_symbol_value(symbols, sym_name(self_name, kind, Args[a].chars))
    IN  IF ~done(m, "build_fut")
        THEN Resolved(m1, "idle", a, Answer(op, a, None, Error("build", None, None)))
        ELSE IF symbol = None
        THEN Resolved(m1, "idle", a,
                Answer(op, a, None,
                       Error("not_found", Some(self_name), Some(Args[a].chars))))
        ELSE Resolved(m1, "idle", a, Answer(op, a, symbol, None))

\* __get_symbol up to its first await of self.binary; while the call waits
\* for the build it has neither returned nor raised.
resolve_symbol(m, op, a) ==
    LET m1 == binary(m)
    IN  IF settled(m1, "build_fut") THEN lookup_symbol(m1, op, a)
        ELSE Resolved(m1, "await_binary", a, Answer(op, a, None, None))

\* SancusModule.get_io_id: isinstance(io, int).
sancus_get_io_id(m, op, a) ==
    IF Args[a].type = "int"
    THEN Resolved(m, "idle", a, Answer(op, a, Some(Args[a].num), None))
    ELSE resolve_symbol(m, op, a)

\* SancusModule.get_entry_id: entry.isnumeric(), which an int does not have.
sancus_get_entry_id(m, op, a) ==
    IF Args[a].type # "str"
    THEN Resolved(m, "idle", a, Answer(op, a, None, Error("attribute", None, None)))
    ELSE IF isnumeric(Args[a].chars)
    THEN Resolved(m, "idle", a, Answer(op, a, Some(int(Args[a].chars)), None))
    ELSE resolve_symbol(m, op, a)

get_io_id_call ==
    /\ backend = "sancus"
    /\ \E op \in IoOps, a \in DOMAIN Args :
        \E r \in {sancus_get_io_id(M, op, a)} : Call(op, r) /\ endpoint' = r.e
    /\ UNCHANGED <<Env, deployed, attested, reply, dumped>>

get_entry_id_call ==
    /\ backend = "sancus"
    /\ \E a \in DOMAIN Args :
        \E r \in {sancus_get_entry_id(M, "get_entry_id", a)} :
            Call("get_entry_id", r) /\ endpoint' = r.e
    /\ UNCHANGED <<Env, deployed, attested, reply, dumped>>

lookup_symbol_resume(c) ==
    /\ c.op \in IoOps \cup {"get_entry_id"} /\ c.pc = "await_binary"
    /\ Settled("build_fut")
    /\ \E r \in {lookup_symbol(M, c.op, c.req)} : Resume(c, r) /\ endpoint' = r.e
    /\ UNCHANGED <<Env, deployed, attested, reply, dumped>>

\* name in map / map[name] on a static map.
RECURSIVE map_get(_, _)
map_get(map, nm) ==
    IF map = <<>> THEN None
    ELSE IF Head(map).name = nm THEN Some(Head(map).id)
    ELSE map_get(Tail(map), nm)

\* The lookups of the TrustZone module; Error("Input not present in inputs")
\* and its like when the name is not a key of the map.
trustzone_lookup(map, op, a) ==
    LET found == map_get(map, Args[a].chars)
    IN  IF found = None THEN Answer(op, a, None, Error("not_found", None, None))
        ELSE Answer(op, a, found, None)

\* TrustZoneModule.get_input_id / get_output_id.
trustzone_get_io_id(op, a) ==
    IF Args[a].type = "int" THEN Answer(op, a, Some(Args[a].num), None)
    ELSE trustzone_lookup(IF op = "get_input_id" THEN statics.inputs
                          ELSE statics.outputs, op, a)

\* TrustZoneModule.get_entry_id.
trustzone_get_entry_id(op, a) ==
    IF Args[a].type # "str" THEN Answer(op, a, None, Error("attribute", None, None))
    ELSE IF isnumeric(Args[a].chars)
    THEN Answer(op, a, Some(int(Args[a].chars)), None)
    ELSE trustzone_lookup(statics.entrypoints, op, a)

trustzone_get_io_id_call ==
    /\ backend = "trustzone"
    /\ \E op \in IoOps, a \in DOMAIN Args :
        Call(op, Stop(M)) /\ endpoint' = trustzone_get_io_id(op, a)
    /\ UNCHANGED <<Env, deployed, attested, reply, dumped>>

trustzone_get_entry_id_call ==
    /\ backend = "trustzone"
    /\ \E a \in DOMAIN Args :
        /\ Call("get_entry_id", Stop(M))
        /\ endpoint' = trustzone_get_entry_id("get_entry_id", a)
    /\ UNCHANGED <<Env, deployed, attested, reply, dumped>>

\* -------------------------------------------------------------------- dump
\* "x": dump(self.x) if self.deployed else None
dump_field_always(dep, v) == v
dump_field(dep, v) == IF dep THEN v ELSE None

\* What the module holds in its slots, as dump() encodes it.
held_binary(m) == IF done(m, "build_fut") THEN Some(m.fut["build_fut"].val) ELSE None
held_id(m) == IF done(m, "deploy_fut") THEN m.fut["deploy_fut"].val[1] ELSE None
held_symtab(m) == IF done(m, "deploy_fut") THEN m.fut["deploy_fut"].val[2] ELSE None
held_key(m) == IF done(m, "key_fut") THEN Some(hexlify(m.fut["key_fut"].val)) ELSE None

Dumping(m, pc, d) == [m |-> m, pc |-> pc, req |-> 0, d |-> d]

\* dump(), once "key" is there: the dictionary is complete.
dump_key(m, d) ==
    LET m1 == observe(m, "key", "key_fut")
    IN  IF done(m, "key_fut")
        THEN Dumping(m1, "idle", [d EXCEPT !.key = dump_field(d.deployed, held_key(m)),
                                           !.made = TRUE])
        ELSE Dumping(m1, "idle", d)

\* Sancus dump(), once "id" is there: "symtab" comes from the same future,
\* "key" is next.
dump_id(m, d) ==
    LET m1 == observe(m, "deploy", "deploy_fut")
        d1 == [d EXCEPT !.id = dump_field(d.deployed, held_id(m)),
                        !.symtab = dump_field(d.deployed, held_symtab(m))]
        m2 == key(m1)
    IN  IF ~done(m, "deploy_fut") THEN Dumping(m1, "idle", d)
        ELSE IF settled(m2, "key_fut") THEN dump_key(m2, d1)
        ELSE Dumping(m2, "dump_key", d1)

\* dump(), once "binary" is there: Sancus goes on with "id"; TrustZone's
\* "id" is the field, and "key" is next.
dump_binary(m, d) ==
    LET m1 == observe(m, "build", "build_fut")
        d1 == [d EXCEPT !.binary = dump_field(d.deployed, held_binary(m))]
    IN  IF ~done(m, "build_fut") THEN Dumping(m1, "idle", d)
        ELSE IF backend = "sancus"
        THEN LET m2 == id(m1)
             IN  IF settled(m2, "deploy_fut") THEN dump_id(m2, d1)
                 ELSE Dumping(m2, "dump_id", d1)
        ELSE LET m2 == key(m1)
                 d2 == [d1 EXCEPT !.id = self_id]
             IN  IF settled(m2, "key_fut") THEN dump_key(m2, d2)
                 ELSE Dumping(m2, "dump_key", d2)

\* dump(): of a module that is not deployed, nothing is awaited; of a
\* deployed one the fields are evaluated in order, and dump(self.binary) runs
\* the binary property to completion first.
dump_evaluating_every_field(m) ==
    LET d == [NoDump EXCEPT !.deployed = deployed, !.attested = attested]
        m1 == binary(m)
    IN  IF settled(m1, "build_fut") THEN dump_binary(m1, d)
        ELSE Dumping(m1, "dump_binary", d)

dump(m) ==
    LET d == [NoDump EXCEPT !.deployed = deployed, !.attested = attested]
    IN  IF ~deployed
        THEN Dumping(m, "idle",
                [d EXCEPT !.binary = dump_field(deployed, held_binary(m)),
                          !.id = IF backend = "sancus"
                                 THEN dump_field(deployed, held_id(m)) ELSE self_id,
                          !.symtab = IF backend = "sancus"
                                     THEN dump_field(deployed, held_symtab(m)) ELSE None,
                          !.key = dump_field(deployed, held_key(m)),
                          !.made = TRUE])
        ELSE LET m1 == binary(m)
             IN  IF settled(m1, "build_fut") THEN dump_binary(m1, d)
                 ELSE Dumping(m1, "dump_binary", d)

dump_call ==
    /\ \E r \in {dump(M)} : Call("dump", r) /\ dumped' = r.d
    /\ UNCHANGED <<Env, deployed, attested, reply, endpoint>>

dump_resume_binary(c) ==
    /\ At(c, "dump", "dump_binary")
    /\ Settled("build_fut")
    /\ \E r \in {dump_binary(M, dumped)} : Resume(c, r) /\ dumped' = r.d
    /\ UNCHANGED <<Env, deployed, attested, reply, endpoint>>

dump_resume_id(c) ==
    /\ At(c, "dump", "dump_id")
    /\ Settled("deploy_fut")
    /\ \E r \in {dump_id(M, dumped)} : Resume(c, r) /\ dumped' = r.d
    /\ UNCHANGED <<Env, deployed, attested, reply, endpoint>>

dump_resume_key(c) ==
    /\ At(c, "dump", "dump_key")
    /\ Settled("key_fut")
    /\ \E r \in {dump_key(M, dumped)} : Resume(c, r) /\ dumped' = r.d
    /\ UNCHANGED <<Env, deployed, attested, reply, endpoint>>

\* -------------------------------------------------------------------- Next
Next ==
    \/ build_call \/ sancus_deploy_call \/ trustzone_deploy_call
    \/ get_key_call \/ attest_call \/ attest_manager_call
    \/ get_id_call \/ trustzone_get_id
    \/ get_endpoint_numeric \/ get_symbol_call \/ trustzone_get_endpoint
    \/ dump_call
    \/ \E c \in BagToSet(callers) :
        \/ build_return(c) \/ sancus_deploy_return(c)
        \/ trustzone_deploy_resume(c) \/ trustzone_deploy_done(c)
        \/ get_key_return(c) \/ attest_return(c)
        \/ attest_manager_resume_id(c) \/ attest_manager_resume_key(c)
        \/ attest_manager_done(c)
        \/ get_id_return(c) \/ get_symbol_return(c)
        \/ dump_resume_binary(c) \/ dump_resume_id(c) \/ dump_resume_key(c)
    \/ sancus_build_start \/ sancus_build_compiled \/ sancus_build_linked
    \/ trustzone_build_start \/ trustzone_build_made
    \/ node_deploy_start \/ node_deploy_resume \/ node_deploy_done
    \/ calculate_key_start \/ link_resume_symtab \/ link_resume_binary
    \/ link_done \/ calculate_key_done
    \/ trustzone_calculate_key_start \/ trustzone_calculate_key_resume
    \/ node_attest_start \/ node_attest_done

Spec == Init /\ [][Next]_vars

\* ------------------------------------------- endpoint resolution, in detail
\* A module that is not deployed, with or without a binary from an earlier
\* run, and the calls that resolve inputs, outputs and entry points on it.
InitEndpoints ==
    /\ backend \in {"sancus", "trustzone"}
    /\ att_man = FALSE
    /\ mod_dict \in {d \in Dicts : /\ ~d.deployed /\ ~d.attested
                                  /\ d.id = None /\ d.symtab = None /\ d.key = None}
    /\ Constructed
    /\ Fresh
    /\ symbols \in (IF backend = "sancus" THEN SymTabs ELSE {<<>>})
    /\ statics \in (IF backend = "trustzone"
                    THEN [inputs : IdMaps, outputs : IdMaps, entrypoints : IdMaps]
                    ELSE {NoStatics})
    /\ ldflags = "none" /\ connections = 0
    /\ config_file = NoContent
    /\ NoBuild
    /\ NoKeyMaterial

NextEndpoints ==
    \/ get_io_id_call \/ get_entry_id_call
    \/ trustzone_get_io_id_call \/ trustzone_get_entry_id_call
    \/ \E c \in BagToSet(callers) : lookup_symbol_resume(c)
    \/ sancus_build_start \/ sancus_build_compiled \/ sancus_build_linked

SpecEndpoints == InitEndpoints /\ [][NextEndpoints]_vars

\* --------------------------------------------------- Sancus build, in detail
\* A Sancus module that is not deployed and has no binary, its link flags
\* with or without a config file, and the runs that build it.
InitBuild ==
    /\ backend = "sancus"
    /\ att_man = FALSE
    /\ mod_dict = [deployed |-> FALSE, attested |-> FALSE, binary |-> None,
                   id |-> None, symtab |-> None, key |-> None]
    /\ Constructed
    /\ Fresh
    /\ symbols = <<>>
    /\ statics = NoStatics
    /\ ldflags \in {"none", "file"}
    /\ connections \in {1, 2}
    /\ config_file \in (IF ldflags = "file" THEN Contents ELSE {NoContent})
    /\ NoBuild
    /\ NoKeyMaterial

NextBuild ==
    \/ build_call
    \/ \E c \in BagToSet(callers) : build_return(c)
    \/ build_objects \/ cc_exit \/ gather_done \/ ld_exit
    \/ reload

SpecBuild == InitBuild /\ [][NextBuild]_vars

\* -------------------------------------------------- TrustZone key, in detail
\* A TrustZone module with its binary built, and the calls that ask for
\* its key.
InitKey ==
    /\ backend = "trustzone"
    /\ att_man = FALSE
    /\ mod_dict \in {d \in Dicts : /\ ~d.attested /\ d.binary # None
                                  /\ d.symtab = None /\ d.key = None}
    /\ Constructed
    /\ Fresh
    /\ symbols = <<>>
    /\ statics = NoStatics
    /\ ldflags = "none" /\ connections = 0
    /\ config_file = NoContent
    /\ NoBuild
    /\ node_key \in NodeKeys
    /\ ta_binary \in Binaries
    /\ key_size \in KeySizes

NextKey ==
    \/ get_key_call
    \/ \E c \in BagToSet(callers) : get_key_return(c)
    \/ derive_key

SpecKey == InitKey /\ [][NextKey]_vars

\* ================================================================= claims
Outcome(s) == [ok |-> fut[s].st = "done", run |-> fut[s].run]

\* C1: any number of deploy() calls on one module issue a single node.deploy
\* request, and every call observes the result of that request.
C1_SingleDeployRequest ==
    /\ n["node_deploy"] <= 1
    /\ Cardinality(seen["deploy"]) <= 1

\* C2: any number of attest() calls on one module trigger a single
\* attestation attempt, be it node.attest or the attestation-manager client.
C2_SingleAttestAttempt == n["node_attest"] + n["att_man"] <= 1

\* C3: the build algorithm is started at most once per module, whichever way
\* the callers reach build(); they all receive the outcome of the one future.
C3_BuildOnce ==
    /\ n["build"] <= 1
    /\ fut["build_fut"].run = n["build"]
    /\ seen["build"] \subseteq {Outcome("build_fut")}

\* C3 witness: build() and get_key() were both called, the build ran once
\* and its result was handed to an awaiter.
C3_Witness ==
    /\ called = {"build", "get_key"}
    /\ n["build"] = 1
    /\ n["calculate_key"] = 1
    /\ seen["build"] = {[ok |-> TRUE, run |-> 1]}

\* C4: key derivation is started at most once per module, and so are the
\* link pass and the key-generation tool of Sancus.
C4_KeyOnce ==
    /\ n["calculate_key"] <= 1
    /\ n["link"] <= 1
    /\ n["keygen"] <= 1
    /\ fut["key_fut"].run = n["calculate_key"]
    /\ seen["key"] \subseteq {Outcome("key_fut")}

\* C4 witness: get_key() and a remote attestation both read the key, which
\* was derived by one link pass and one run of sancus-crypto.
C4_Witness ==
    /\ att_man
    /\ called = {"get_key", "attest"}
    /\ n["att_man"] = 1
    /\ n["keygen"] = 1
    /\ seen["key"] = {[ok |-> TRUE, run |-> 1]}

\* C5 as stated: the dictionary dumped by a module that is not deployed has
\* no binary, id, symtab and key.
C5_UndeployedDumpIsBare ==
    (dumped.made /\ ~dumped.deployed) =>
        /\ dumped.binary = None /\ dumped.id = None
        /\ dumped.symtab = None /\ dumped.key = None

\* C5 amended: the dictionary dumped by a module that is not deployed has no
\* binary, symtab and key; it has no id for Sancus, and for TrustZone its
\* id is the module's id field whatever deployed is.
C5_UndeployedDump ==
    (dumped.made /\ ~dumped.deployed) =>
        /\ dumped.binary = None /\ dumped.symtab = None /\ dumped.key = None
        /\ dumped.id = IF backend = "sancus" THEN None ELSE self_id

\* C5 witness: a module that holds a binary and a key was dumped while not
\* deployed.
C5_Witness ==
    /\ dumped.made /\ ~dumped.deployed /\ ~deployed
    /\ held_binary(M) # None /\ held_key(M) # None
    /\ n["build"] = 1 /\ n["calculate_key"] = 1

\* How often the computation of a stage was started.
Started(k) ==
    CASE k = "build" -> n["build"]
      [] k = "deploy" -> n["node_deploy"]
      [] k = "key" -> n["calculate_key"] + n["link"] + n["keygen"]
      [] k = "attest" -> n["node_attest"] + n["att_man"]

\* C6: once the computation of a stage has failed, it is not started again
\* and the failure is the one outcome its callers observe.
C6_FailureIsFinal ==
    [][\A k \in failed : /\ Started(k)' = Started(k)
                         /\ \A o \in seen[k]' : ~o.ok]_vars

\* C7: a module loaded from a dictionary with known values never computes
\* them again: no build with a binary, no node.deploy with id and symtab, no
\* key derivation with a key, no attestation attempt with attested = true.
C7_LoadedStagesSkipped ==
    /\ mod_dict.binary # None => n["build"] = 0
    /\ (backend = "sancus" /\ mod_dict.id # None /\ mod_dict.symtab # None)
            => n["node_deploy"] = 0
    /\ mod_dict.key # None => Started("key") = 0
    /\ mod_dict.attested => Started("attest") = 0

\* The deployment of the module has completed, in this run or before it.
DeployCompleted == deployed \/ fut["deploy_fut"].st = "done"

\* C8: the build completes before the link pass starts, the link pass
\* before the key-generation tool, the deployment before any attestation
\* attempt.
C8_DependencyOrder ==
    /\ n["link"] > 0 => fut["build_fut"].st = "done"
    /\ n["keygen"] > 0 => (n["link"] > 0 /\ task["key_fut"] # "msp430_ld")
    /\ Started("attest") > 0 => DeployCompleted

\* C9 as stated: node.deploy is requested only when deploy() was called.
C9_DeployOnlyExplicit == n["node_deploy"] > 0 => "deploy" \in called

\* The methods that may request a deployment of a module that has none.
DeployingOps ==
    IF backend = "sancus" THEN {"deploy", "get_id", "get_key", "attest", "dump"}
    ELSE {"deploy", "attest"}

\* C9 amended: build() and the resolution of endpoints never request a
\* deployment, nor do get_key, get_id and dump of TrustZone; a Sancus module
\* requests it, through deploy(), for get_id, get_key, attest and dump too.
C9_DeployOnlyWhenNeeded ==
    n["node_deploy"] > 0 => called \cap DeployingOps # {}

\* C9 witness: an endpoint was resolved from the symbol table of a binary
\* built for it, and build() was called, without any deployment request.
C9_Witness ==
    /\ backend = "sancus"
    /\ called = {"build", "get_io_id"}
    /\ seen["build"] = {[ok |-> TRUE, run |-> 1]}
    /\ callers = EmptyBag
    /\ n["node_deploy"] = 0

\* The last output of the attestation-manager client decodes to self.key.
ReplyMatches(r) ==
    /\ r.out # None
    /\ bytes_ok(r.out[1])
    /\ bytes(r.out[1]) = fut["key_fut"].val

\* C10: with an attestation manager, an attest() whose received key differs
\* from the module's key raises and leaves attested as it was; attested
\* becomes true only on a received key equal to the module's key.
C10_MismatchDetected ==
    /\ [](att_man /\ reply.out # None /\ ~ReplyMatches(reply) => reply.raised)
    /\ [][att_man /\ attested' # attested => ReplyMatches(reply') /\ ~reply'.raised]_vars

\* C10 witness: the received key has the length of the module's key and
\* differs from it in a byte; attest() raised and attested is still false.
C10_Witness ==
    /\ att_man /\ ~attested
    /\ reply.out # None /\ bytes_ok(reply.out[1])
    /\ fut["key_fut"].st = "done" /\ n["keygen"] = 1
    /\ Len(reply.out[1]) = Len(fut["key_fut"].val)
    /\ Len(reply.out[1]) > 0
    /\ bytes(reply.out[1]) # fut["key_fut"].val
    /\ reply.raised

\* ------------------------------------------------------------------------
\* C11: get_input_id, get_output_id and get_entry_id called with a numeric
\* argument (an int, or a string of digits) return that number, start no
\* build or other computation and leave every memoized slot as it was.
NumericArg(a) == Args[a].type = "int" \/ isnumeric(Args[a].chars)
NumberOf(a) == IF Args[a].type = "int" THEN Args[a].num ELSE int(Args[a].chars)

C11_NumericPassthrough ==
    [][(calls' = calls + 1 /\ NumericArg(endpoint'.arg))
        => /\ endpoint'.out = Some(NumberOf(endpoint'.arg))
           /\ UNCHANGED <<fut, task, n>>]_vars

\* C14: every failed resolution of an input, output or entry name raises an
\* error whose message names the module and the name that was not found.
C14_ErrorNamesModuleAndEndpoint ==
    (endpoint.err # None /\ endpoint.err[1].kind = "not_found")
        => /\ endpoint.err[1].module = Some(self_name)
           /\ endpoint.err[1].name = Some(Args[endpoint.arg].chars)

\* C16: a Sancus name that goes to the symbol table resolves to the st_value
\* of a symbol __sm_<module>_io_<name>_idx (or _entry_) whose section is not
\* SHN_UNDEF, and raises "no endpoint named" only when there is no such
\* symbol; undefined symbols and other modules' symbols never answer.
DefinedSymbols(kind, chars) ==
    {i \in DOMAIN symbols :
        /\ symbols[i].name = sym_name(self_name, kind, chars)
        /\ symbols[i].st_shndx # "SHN_UNDEF"}

BySymbol(e) ==
    /\ backend = "sancus" /\ e.op # ""
    /\ Args[e.arg].type = "str"
    /\ e.op = "get_entry_id" => ~isnumeric(Args[e.arg].chars)

C16_SymbolResolution ==
    BySymbol(endpoint) =>
        LET defined == DefinedSymbols(IF endpoint.op = "get_entry_id" THEN "entry"
                                      ELSE "io", Args[endpoint.arg].chars)
        IN  /\ endpoint.out # None =>
                \E i \in defined : endpoint.out = Some(symbols[i].st_value)
            /\ (endpoint.err # None /\ endpoint.err[1].kind = "not_found") =>
                defined = {}
            /\ (endpoint.out = None /\ endpoint.err = None) =>
                ~Settled("build_fut") \/ callers # EmptyBag

C16_Witness ==
    /\ BySymbol(endpoint)
    /\ Len(symbols) = 2 /\ symbols[1].st_shndx = "SHN_UNDEF"
    /\ symbols[1].name = symbols[2].name
    /\ endpoint.out = Some(symbols[2].st_value)
    /\ n["build"] = 1 /\ calls = 1

\* ------------------------------------------------------------------------
\* C12: load(dump(M)) of a module that is not deployed has its binary,
\* id/symtab and key slots unset; load(dump(M)) of a deployed module holds
\* the binary path, the id and the key bytes that M holds.
Reloaded ==
    LET d == [deployed |-> dumped.deployed, attested |-> dumped.attested,
              binary |-> dumped.binary, id |-> dumped.id,
              symtab |-> dumped.symtab, key |-> dumped.key]
    IN  IF backend = "sancus" THEN SancusLoad(d) ELSE TrustZoneLoad(d)

ModuleValue(content) ==
    IF content.kind # "dict" \/ content.own = None THEN None
    ELSE IF content.own[1] = <<>> THEN None
    ELSE Some(content.own[1][Len(content.own[1])])

C13_MergeIdempotent ==
    [][(merged' # merged /\ merged'[Len(merged')].file = "config")
        => /\ (\E i \in DOMAIN merged : merged[i].file = "config")
                => config_file' = config_file
           /\ config_file' # config_file
                => \/ ModuleValue(config_file) = None
                   \/ ModuleValue(config_file)[1] < connections]_vars

\* C15: the compilers of all source files are launched together; the config
\* file is prepared and sancus-ld launched only when every compiler has
\* succeeded; and build() has a binary path only when every compiler and the
\* linker succeeded, so a failed compile, merge or link leaves none.
AllCompiled == \A f \in Files : cc[f] = "ok"

C15_BuildAllOrNothing ==
    /\ [](/\ (\E f \in Files : cc[f] # "none") => (\A f \in Files : cc[f] # "none")
          /\ ld # "none" => AllCompiled
          /\ (fut["build_fut"].st = "done" /\ fut["build_fut"].run > 0)
                => AllCompiled /\ ld = "ok" /\ merged # <<>>
          /\ ((\E f \in Files : cc[f] = "failed") \/ ld = "failed")
                => fut["build_fut"].st \in {"pending", "failed"})
    /\ [][merged' # merged => AllCompiled /\ ld = "none" /\ ld' = "running"]_vars

C15_Witness ==
    /\ \E f, g \in Files : cc[f] = "failed" /\ cc[g] = "running"
    /\ fut["build_fut"].st = "failed"
    /\ seen["build"] = {[ok |-> FALSE, run |-> 1]}
    /\ ld = "none" /\ merged = <<>>

\* C17: preparing the config file never removes anything from the file the
\* link flags designate: every key and every record that was there is still
\* there, and at most one record has been appended to this module's list.
Grows(old, new) ==
    \/ new = old
    \/ /\ old.kind = "dict" /\ new.kind = "dict"
       /\ new.num_connections = old.num_connections
       /\ new.other = old.other
       /\ old.own # None /\ new.own # None
       /\ Len(new.own[1]) = Len(old.own[1]) + 1
       /\ SubSeq(new.own[1], 1, Len(old.own[1])) = old.own[1]

C17_ConfigOnlyGrows == [][Grows(config_file, config_file')]_vars

C17_Witness ==
    /\ Len(merged) = 1 /\ merged[1].file = "config"
    /\ config_file = merged[1].content
    /\ config_file.other = Some(<<4>>)
    /\ config_file.num_connections = Some(1)
    /\ config_file.own = Some(<<1, connections>>)

\* ------------------------------------------------------------------------
\* C18: the key of a TrustZone module is the first key_size bytes of
\* sha256(K || H), K the node key and H the 32 bytes at offset 20 of the
\* binary; when key_size is more than 32 the derivation raises and there
\* is no key.
HashField == [i \in 1..32 |-> ta_binary[20 + i]]

C18_KeyDerivation ==
    (fut["key_fut"].run > 0 /\ Settled("key_fut") /\ Len(ta_binary) >= 52) =>
        IF key_size > 32 THEN fut["key_fut"].st = "failed"
        ELSE /\ fut["key_fut"].st = "done"
             /\ Len(fut["key_fut"].val) = key_size
             /\ \A i \in 1..key_size :
                    fut["key_fut"].val[i] = sha256(node_key \o HashField)[i]

C18_Witness ==
    /\ fut["key_fut"].run = 1 /\ fut["key_fut"].st = "done"
    /\ key_size = 16 /\ Len(fut["key_fut"].val) = 16
    /\ Len(ta_binary) > 52 /\ node_key = <<1, 2>>
    /\ seen["key"] = {[ok |-> TRUE, run |-> 1]}

\* ------------------------------------------------------------------------
\* C19: dump() of a module that is not deployed only reads: the call starts
\* no build, deployment, key derivation or attestation, and the slots (unset,
\* pending or settled) and the deployed and attested flags stay as they are.
C19_UndeployedDumpOnlyReads ==
    [][(~deployed /\ dump_call)
        => /\ UNCHANGED <<fut, task, n, seen, failed, deployed, attested>>
           /\ callers' = callers
           /\ dumped'.made]_vars

C19_Witness ==
    /\ dumped.made /\ ~dumped.deployed /\ ~deployed
    /\ called = {"get_key", "dump"}
    /\ fut["key_fut"].st = "pending" /\ fut["build_fut"].st = "pending"
    /\ fut["deploy_fut"].st = "none" /\ fut["attest_fut"].st = "none"
    /\ n["calculate_key"] = 1 /\ n["build"] = 1
====
